---- MODULE Spec2Model ----
(***************************************************************************)
(* A model of gedixr's extraction pipeline: extract_data of extract.py and *)
(* of gedi.py, with the helpers of ancillary.py they call.  One run is     *)
(* Begin -> Discover -> FileIteration* -> WriteOutputs -> Finally, with    *)
(* OuterExcept between a raise inside the outer try block and Finally.     *)
(***************************************************************************)
EXTENDS Integers, Sequences, FiniteSets, TLC

\* ------------------------------------------------------------------ bounds
\* the largest number of files a directory holds
MaxFiles == 2
\* the largest number of runs of extract_data in one process (SpecRuns)
MaxRuns == 2
\* the largest number of zip archives under the directory (gedi.py)
MaxZips == 2
\* the largest number of shots of a table handed to the quality filter on
\* its own (SpecFilter)
MaxRows == 2
\* the largest number of successive applications of the quality filter
MaxApplications == 2

\* ------------------------------------------------------- program constants
ALLOWED_PRODUCTS == {"L2A", "L2B"}

\* the default month range, filter_month = (1, 12)
DEFAULT_FILTER_MONTH == <<1, 12>>

DEFAULT_VARIABLES(p) ==
  IF p = "L2A" THEN << <<"rh98", "rh98">> >>
  ELSE << <<"tcc", "cover">>, <<"fhd", "fhd_normal">>, <<"pai", "pai">>,
          <<"rh100", "rh100">> >>

DEFAULT_BASE(p) ==
  IF p = "L2A"
  THEN << <<"shot", "shot_number">>, <<"latitude", "lat_lowestmode">>,
          <<"longitude", "lon_lowestmode">>, <<"elev", "elev_lowestmode">>,
          <<"elev_dem_tdx", "digital_elevation_model">>,
          <<"degrade_flag", "degrade_flag">>, <<"quality_flag", "quality_flag">>,
          <<"sensitivity", "sensitivity">>,
          <<"num_detectedmodes", "num_detectedmodes">> >>
  ELSE << <<"shot", "shot_number">>, <<"latitude", "geolocation/lat_lowestmode">>,
          <<"longitude", "geolocation/lon_lowestmode">>,
          <<"elev", "geolocation/elev_lowestmode">>,
          <<"elev_dem_tdx", "geolocation/digital_elevation_model">>,
          <<"degrade_flag", "geolocation/degrade_flag">>,
          <<"quality_flag", "l2b_quality_flag">>, <<"sensitivity", "sensitivity">>,
          <<"num_detectedmodes", "num_detectedmodes">> >>

\* layers = DEFAULT_BASE[gedi_product] + variables
Layers(p) == DEFAULT_BASE(p) \o DEFAULT_VARIABLES(p)

\* ------------------------------------------------------------ input domains
\* the beams asked for (an explicit list of two beam names)
Beams == <<"BEAM0101", "BEAM0110">>

\* the regions of interest: each polygon is the set of positions it covers
\* A and B overlap in pAB; C shares no position with either
RegionGeo(r) ==
  CASE r = "A" -> {"pA", "pAB"}
    [] r = "B" -> {"pAB", "pB"}
    [] OTHER -> {"pOut", "pC"}

\* the kinds of shot a beam may hold: the values of its layers
ShotKinds == {"good_A", "good_AB", "good_out", "poor_A", "degraded", "nomodes",
              "above", "below", "near"}

\* a shot_number is an unsigned 64-bit integer, held as three limbs of seven
\* decimal digits: <<a, b, c>> is a * 10^14 + b * 10^7 + c
UInt64Max == <<184467, 4407370, 9551615>>

ShotValues(kind) ==
  [quality_flag |-> IF kind = "poor_A" THEN 0 ELSE 1,
   degrade_flag |-> IF kind = "degraded" THEN 3 ELSE 0,
   num_detectedmodes |-> IF kind = "nomodes" THEN 0 ELSE 1,
   elev |-> CASE kind = "above" -> 200
              [] kind = "below" -> 0
              [] kind = "near" -> 1
              [] OTHER -> 120,
   elev_dem_tdx |-> 100,
   shot_number |-> CASE kind = "good_A" -> <<293, 2060030, 383415>>
                     [] kind = "good_out" -> UInt64Max
                     [] kind = "poor_A" -> <<0, 0, 5>>
                     [] kind = "near" -> <<10000, 0, 0>>
                     [] OTHER -> <<1293, 2060030, 383415>>,
   pos |-> CASE kind = "good_A" -> "pA"
             [] kind = "good_AB" -> "pAB"
             [] kind = "good_out" -> "pOut"
             [] OTHER -> "pA"]

\* a cell of a column: the shot (file, beam, position in the beam, kind) whose
\* layer value it holds
Cell(fidx, beam, k, kind) == <<fidx, beam, k, kind>>
CellKind(cell) == cell[4]
CellFile(cell) == cell[1]

\* the contents of a beam group of a file: present or not, with or without its
\* shot_number dataset, its shots, and the layer (by position in the layer
\* list, 0 for none) whose read raises
BeamRec(present, hasShot, shots, failAt) ==
  [present |-> present, hasShotNumber |-> hasShot, shots |-> shots, failAt |-> failAt]

\* what the first beam asked for may hold in a file
BeamKinds ==
  { BeamRec(FALSE, FALSE, <<>>, 0),
    BeamRec(TRUE, FALSE, <<"good_A">>, 0),
    BeamRec(TRUE, TRUE, <<>>, 0),
    BeamRec(TRUE, TRUE, <<"good_A">>, 0),
    BeamRec(TRUE, TRUE, <<"poor_A", "good_AB">>, 0),
    BeamRec(TRUE, TRUE, <<"poor_A">>, 0),
    BeamRec(TRUE, TRUE, <<"good_A">>, 1),
    BeamRec(TRUE, TRUE, <<"good_A">>, 3) }

\* what the second beam may hold
BeamKindsSecond ==
  { BeamRec(FALSE, FALSE, <<>>, 0),
    BeamRec(TRUE, TRUE, <<"good_out">>, 0) }

\* the months the file names decode to; 0 stands for a name that matches the
\* product pattern and holds no decodable 13-digit date token
FileMonths == {2, 7}
FileDates == {0} \cup FileMonths

\* ------------------------------------------------------- shot identifiers
DigitChars == <<"0", "1", "2", "3", "4", "5", "6", "7", "8", "9">>

\* the decimal digits of a natural number
RECURSIVE DecStr(_)
DecStr(n) ==
  IF n < 10 THEN <<DigitChars[n + 1]>>
  ELSE DecStr(n \div 10) \o <<DigitChars[(n % 10) + 1]>>

\* format spec '0>w': right-aligned, filled with '0' up to the width w, which
\* is a least width; a longer string is left as it is
PadLeft(s, w) ==
  IF Len(s) >= w THEN s ELSE [j \in 1..(w - Len(s)) |-> "0"] \o s

\* str() of a shot_number: its decimal digits
Str(n) ==
  IF n[1] > 0 THEN DecStr(n[1]) \o PadLeft(DecStr(n[2]), 7) \o PadLeft(DecStr(n[3]), 7)
  ELSE IF n[2] > 0 THEN DecStr(n[2]) \o PadLeft(DecStr(n[3]), 7)
  ELSE DecStr(n[3])

ShotIdWidth == 18

\* f"{_id:0>18}" (extract.py)
ShotIdExtract(n) == PadLeft(Str(n), ShotIdWidth)

\* str(h) (gedi.py)
ShotIdGedi(n) == Str(n)

ShotId(variant, n) == IF variant = "extract" THEN ShotIdExtract(n) ELSE ShotIdGedi(n)

\* the cells of the shot column: the shot with its identifier string
ShotCells(variant, cells) ==
  [j \in 1..Len(cells) |->
     cells[j] \o <<ShotId(variant, ShotValues(CellKind(cells[j])).shot_number)>>]
CellShotId(cell) == cell[5]

\* ---------------------------------------------------------- Beam Extractor
\* the read gedi[f"{beam}/{v}"][()] of the j-th layer raises: the dataset is
\* unreadable, or it is the shot_number dataset of a beam that has none
ReadRaises(beam, j, v) ==
  \/ beam.failAt = j
  \/ (v = "shot_number" /\ ~beam.hasShotNumber)

\* a beam the loop skips with an informational log (extract.py)
BeamSkippedExtract(beam) == ~beam.present \/ ~beam.hasShotNumber

\* a beam the loop skips with an informational log (gedi.py)
BeamSkippedGedi(beam) == ~beam.present

BeamSkipped(variant, beam) ==
  IF variant = "extract" THEN BeamSkippedExtract(beam) ELSE BeamSkippedGedi(beam)

NoColumns == [c \in {} |-> <<>>]

\* the values the read of dataset v appends to its column
LayerValues(variant, cells, v) ==
  IF v = "shot_number" THEN ShotCells(variant, cells) ELSE cells

\* the first layer from j on whose read raises, Len(layers) + 1 if none does
FirstRaise(beam, layers, j) ==
  LET bad == {i \in j..Len(layers) : ReadRaises(beam, i, layers[i][2])}
  IN IF bad = {} THEN Len(layers) + 1
     ELSE CHOOSE i \in bad : \A m \in bad : i <= m

\* the columns after the layers j..stop: every key up to stop is created,
\* the values of the layers before stop are appended (a key names one layer)
LayersOut(variant, cells, layers, j, stop, out) ==
  [k \in DOMAIN out \cup {layers[i][1] : i \in {m \in j..Len(layers) : m <= stop}} |->
     (IF k \in DOMAIN out THEN out[k] ELSE <<>>) \o
     (IF \E i \in j..(stop - 1) : layers[i][1] = k
      THEN LayerValues(variant, cells,
                       layers[CHOOSE i \in j..(stop - 1) : layers[i][1] = k][2])
      ELSE <<>>)]

\* for k, v in layers: the key is created before the read, the beam's values
\* are appended after it; the first read that raises ends the beam
LayerLoop(variant, beam, cells, layers, j, out) ==
  [out |-> LayersOut(variant, cells, layers, j, FirstRaise(beam, layers, j), out),
   raised |-> FirstRaise(beam, layers, j) <= Len(layers)]

\* the state of the loop over the beams after a beam's layers: r is what
\* the loop over the layers gave
AfterLayers(acc, r) ==
  [out |-> r.out, errs |-> acc.errs + (IF r.raised THEN 1 ELSE 0), infos |-> acc.infos]

\* the cells of a beam's shots
BeamCells(fidx, name, shots) ==
  [k \in 1..Len(shots) |-> Cell(fidx, name, k, shots[k])]

\* for beam in beams: acc is [out, errs, infos], errs the increments of the
\* error counter and infos the informational skips logged so far
RECURSIVE BeamLoop(_, _, _, _, _, _)
BeamLoop(variant, file, fidx, layers, b, acc) ==
  IF b > Len(Beams) THEN acc
  ELSE LET beam == file.beams[Beams[b]]
       IN IF BeamSkipped(variant, beam)
          THEN BeamLoop(variant, file, fidx, layers, b + 1,
                        [acc EXCEPT !.infos = @ + 1])
          ELSE BeamLoop(variant, file, fidx, layers, b + 1,
                        AfterLayers(acc,
                          LayerLoop(variant, beam,
                                    BeamCells(fidx, Beams[b], beam.shots),
                                    layers, 1, acc.out)))

\* out['acq_time'] = [str(acq_time) for _ in range(len(out['shot']))] after
\* the loop over the beams (acc): raised is the KeyError of out['shot'] when
\* no beam created the shot column
WithAcqTime(acc, date) ==
  IF "shot" \notin DOMAIN acc.out
  THEN [raised |-> TRUE, out |-> acc.out, errs |-> acc.errs, infos |-> acc.infos]
  ELSE [raised |-> FALSE,
        out |-> acc.out @@
                ("acq_time" :> [j \in 1..Len(acc.out["shot"]) |-> <<"t", date>>]),
        errs |-> acc.errs, infos |-> acc.infos]

\* _from_file: the columns of one file
from_file(variant, file, fidx, layers) ==
  WithAcqTime(BeamLoop(variant, file, fidx, layers, 1,
                       [out |-> NoColumns, errs |-> 0, infos |-> 0]),
              file.date)

\* ------------------------------------------------------------- tables
\* a table: its columns and its rows, each row a function from the columns
EmptyTable == [cols |-> {}, rows |-> <<>>]

\* columns of different lengths cut to the shortest one
DataFrameShortest(out) ==
  LET cs == DOMAIN out
      n == IF cs = {} THEN 0
           ELSE CHOOSE m \in {Len(out[c]) : c \in cs} : \A c \in cs : m <= Len(out[c])
  IN [raised |-> FALSE,
      df |-> [cols |-> cs, rows |-> [k \in 1..n |-> [c \in cs |-> out[c][k]]]]]

\* pd.DataFrame(dict of lists): raises when the lists differ in length
DataFrame(out) ==
  LET cs == DOMAIN out
  IN IF \E c, d \in cs : Len(out[c]) # Len(out[d])
     THEN [raised |-> TRUE, df |-> EmptyTable]
     ELSE LET n == IF cs = {} THEN 0 ELSE Len(out[CHOOSE c \in cs : TRUE])
          IN [raised |-> FALSE,
              df |-> [cols |-> cs,
                      rows |-> [i \in 1..n |-> [c \in cs |-> out[c][i]]]]]

DropColumns(df, drop) ==
  [cols |-> df.cols \ drop,
   rows |-> [i \in 1..Len(df.rows) |-> [c \in df.cols \ drop |-> df.rows[i][c]]]]

\* the value a row holds in a column
Val(row, c) == ShotValues(CellKind(row[c]))[c]

Abs(x) == IF x < 0 THEN -x ELSE x

\* -------------------------------------------------------- Quality Filter
\* the difference compared without abs()
QualityCondNoAbs(row) ==
  /\ Val(row, "quality_flag") = 1
  /\ Val(row, "degrade_flag") = 0
  /\ Val(row, "num_detectedmodes") > 0
  /\ Val(row, "elev") - Val(row, "elev_dem_tdx") < 100

\* quality_flag == 1 & degrade_flag == 0 & num_detectedmodes > 0 &
\* abs(elev - elev_dem_tdx) < 100
QualityCond(row) ==
  /\ Val(row, "quality_flag") = 1
  /\ Val(row, "degrade_flag") = 0
  /\ Val(row, "num_detectedmodes") > 0
  /\ Abs(Val(row, "elev") - Val(row, "elev_dem_tdx")) < 100

QualityColumns == {"quality_flag", "degrade_flag", "num_detectedmodes", "elev",
                   "elev_dem_tdx"}

\* _filter_quality (extract.py) and filter_quality (gedi.py): the query raises
\* on a missing column, and the percentage logged divides by len_before
filter_quality(df) ==
  IF ~(QualityColumns \subseteq df.cols) THEN [raised |-> TRUE, df |-> df]
  ELSE LET len_before == Len(df.rows)
           kept == DropColumns([df EXCEPT !.rows = SelectSeq(df.rows, QualityCond)],
                               {"quality_flag", "degrade_flag"})
       IN IF len_before = 0 THEN [raised |-> TRUE, df |-> df]
          ELSE [raised |-> FALSE, df |-> kept]

\* ------------------------------------------------------ Geometry Builder
\* df['geometry'] = df.apply(Point(row.longitude, row.latitude), axis=1) and
\* df.drop(columns=['latitude', 'longitude']).  On a table without rows the
\* apply returns a frame, not a column, and whether the assignment raises
\* depends on the pandas release: emptyRaises says which.
BuildGeometry(df, emptyRaises) ==
  IF ~({"latitude", "longitude"} \subseteq df.cols) THEN [raised |-> TRUE, gdf |-> df]
  ELSE IF Len(df.rows) = 0 /\ emptyRaises THEN [raised |-> TRUE, gdf |-> df]
  ELSE LET cs == (df.cols \ {"latitude", "longitude"}) \cup {"geometry"}
       IN [raised |-> FALSE,
           gdf |-> [cols |-> cs,
                    rows |-> [i \in 1..Len(df.rows) |->
                               [c \in cs |->
                                  IF c = "geometry"
                                  THEN <<ShotValues(CellKind(df.rows[i]["longitude"])).pos,
                                         ShotValues(CellKind(df.rows[i]["latitude"])).pos>>
                                  ELSE df.rows[i][c]]]]]

\* no table taken for empty
EmptyNever(t) == FALSE

\* DataFrame.empty: an axis of length 0
Empty(t) == t.rows = <<>> \/ t.cols = {}

\* every region tested with the polygon of the first one
IntersectsFirstRegion(row, geo) ==
  /\ row["geometry"][1] = row["geometry"][2]
  /\ row["geometry"][1] \in RegionGeo("A")

\* gdf.intersects(geo): the point of the row lies in the polygon
Intersects(row, geo) ==
  /\ row["geometry"][1] = row["geometry"][2]
  /\ row["geometry"][1] \in geo

\* pd.concat of two tables: the rows of the first, then those of the second,
\* over the union of the columns (a value a table lacks is NaN)
NaN == <<"NaN">>
Widen(rows, cs) ==
  [i \in 1..Len(rows) |-> [c \in cs |-> IF c \in DOMAIN rows[i] THEN rows[i][c] ELSE NaN]]

\* the rows of the second table before those of the first
ConcatReversed(t1, t2) ==
  LET cs == t1.cols \cup t2.cols
  IN [cols |-> cs, rows |-> Widen(t2.rows, cs) \o Widen(t1.rows, cs)]

\* pd.concat([t1, t2])
Concat(t1, t2) ==
  LET cs == t1.cols \cup t2.cols
  IN [cols |-> cs, rows |-> Widen(t1.rows, cs) \o Widen(t2.rows, cs)]

\* --------------------------------------------------- Subset Accumulator
None == [none |-> TRUE]

\* for k, v in out_dict.items(): the rows of the file that intersect the
\* region set the region's collection, or are concatenated to it
\* sfail is the region (by position, 0 for none) at which the intersection
\* or the concatenation raises, the collections of the regions before it
\* being assigned already
RECURSIVE SubsetLoop(_, _, _, _, _)
SubsetLoop(regions, j, gdf, od, sfail) ==
  IF j > Len(regions) THEN [od |-> od, raised |-> FALSE]
  ELSE IF sfail = j THEN [od |-> od, raised |-> TRUE]
  ELSE LET k == regions[j]
           gdf_sub == [gdf EXCEPT !.rows =
                         SelectSeq(gdf.rows, LAMBDA r : Intersects(r, od[k].geo))]
           od1 == IF Empty(gdf_sub) THEN od
                  ELSE IF od[k].gdf = None THEN [od EXCEPT ![k].gdf = gdf_sub]
                  ELSE [od EXCEPT ![k].gdf = Concat(@, gdf_sub)]
       IN SubsetLoop(regions, j + 1, gdf, od1, sfail)

\* step (6) with regions on what steps (3) to (5) gave (r): nothing if they
\* raised or no region is configured
SubsetStep(regions, r, od, sfail) ==
  IF r.raised \/ regions = <<>> THEN [od |-> od, raised |-> FALSE]
  ELSE SubsetLoop(regions, 1, r.gdf, od, sfail)

\* every table appended, with or without rows
AppendGlobalAlways(variant, lst, gdf) == Append(lst, gdf)

\* gdf_list_no_spatial_subset.append(gdf): extract.py appends a table only
\* if it has rows, gedi.py appends every table
AppendGlobal(variant, lst, gdf) ==
  IF variant = "extract" /\ Empty(gdf) THEN lst ELSE Append(lst, gdf)

\* the filter applied whatever apply_quality_filter says
ApplyQualityAlways(quality, t) == filter_quality(t)

\* step (4): if apply_quality_filter: df = _filter_quality(df)
ApplyQuality(quality, df) ==
  IF quality THEN filter_quality(df) ELSE [raised |-> FALSE, df |-> df]

\* what a file whose steps (3) to (5) gave g (raised or a table) gives, ff
\* being what _from_file gave
PipelineResult(ff, g) ==
  [raised |-> g.raised, opened |-> TRUE, errs |-> ff.errs, infos |-> ff.infos,
   gdf |-> IF g.raised THEN EmptyTable ELSE g.gdf]

Raised == [raised |-> TRUE]

\* step (5) on what step (4) gave
GeometryStep(q, emptyRaises) ==
  IF q.raised THEN Raised ELSE BuildGeometry(q.df, emptyRaises)

\* step (4) on what pd.DataFrame gave
QualityStep(d, quality) ==
  IF d.raised THEN Raised ELSE ApplyQuality(quality, d.df)

\* pd.DataFrame on what _from_file gave
FrameStep(ff) == IF ff.raised THEN Raised ELSE DataFrame(ff.out)

\* steps (3) to (5) on what _from_file gave
PipelineFrom(ff, quality, emptyRaises) ==
  PipelineResult(ff, GeometryStep(QualityStep(FrameStep(ff), quality), emptyRaises))

\* steps (3) to (5) of one file inside the inner try block: opened says
\* whether h5py.File returned, errs counts the beam-level increments
FilePipeline(variant, file, fidx, product, quality, emptyRaises) ==
  IF ~file.open
  THEN [raised |-> TRUE, opened |-> FALSE, errs |-> 0, infos |-> 0, gdf |-> EmptyTable]
  ELSE PipelineFrom(from_file(variant, file, fidx, Layers(product)), quality,
                    emptyRaises)

\* ------------------------------------------------------ Acquisition Filter
\* the swap left out
SwapMonthsNever(fm) == fm

\* if filter_month[0] > filter_month[1]: swap (extract.py only)
SwapMonths(fm) == IF fm[1] > fm[2] THEN <<fm[2], fm[1]>> ELSE fm

NormalisedMonths(variant, fm) == IF variant = "extract" THEN SwapMonths(fm) ELSE fm

\* the lower end of the range not compared
InMonthRangeNoLower(fm, month) == month <= fm[2]

\* filter_month[0] <= date.month <= filter_month[1]
InMonthRange(fm, month) == fm[1] <= month /\ month <= fm[2]

\* ---------------------------------------------------------- ErrorCounter
\* anc.error_tracker: reset(), increment(), count
ErrorTrackerReset(count) == 0
ErrorTrackerIncrement(count, n) == count + n

\* _error_counter(): N_ERRORS += 1, n times
error_counter(count, n) == count + n

\* a warning printed for a count of 0 too
SummaryWarningsAlways(count) == IF count >= 0 THEN 1 ELSE 0

\* the summary warnings the finally block prints for a count
SummaryWarnings(count) == IF count > 0 THEN 1 ELSE 0

\* ---------------------------------------------------------------- logging
\* set_logging: one more FileHandler on the module's logger
set_logging(hs, id) == hs \cup {id}

\* close_logging: every FileHandler of the logger is closed and removed
close_logging(hs) == {}

\* ---------------------------------------------------- temporary directories
\* _cleanup_tmp_dirs(tmp_dirs): nothing for None
cleanup_tmp_dirs(disk, dirs) == IF dirs = None THEN disk ELSE disk \ dirs.set

\* -------------------------------------------------------- Region Catalog
\* a vector file: the directory and the name of its path, the name as its
\* parts between the dots, and the first geometry the file holds
VectorFile(dir, name, geo) == [dir |-> dir, name |-> name, geo |-> geo]

\* Path(v).name.split('.')[0]
Basename(v) == v.name[1]

\* for v in vec: out[v_basename] = {'geo': roi.geometry[0], 'gdf': None};
\* a later file with the same key replaces the entry of an earlier one
RECURSIVE RoiLoop(_, _, _)
RoiLoop(vec, j, out) ==
  IF j > Len(vec) THEN out
  ELSE RoiLoop(vec, j + 1,
               [k \in DOMAIN out \cup {Basename(vec[j])} |->
                  IF k = Basename(vec[j]) THEN [geo |-> vec[j].geo, gdf |-> None]
                  ELSE out[k]])

\* prepare_roi: the dictionary of the regions of a list of vector files
prepare_roi(vec) == RoiLoop(vec, 1, [k \in {} |-> None])

\* the vector file of the region named k of the runs of extract_data
RegionFile(k) == VectorFile("roi", <<k, "geojson">>, RegionGeo(k))

\* prepare_roi (called as anc.prepare_vec) on the vector files of the regions
\* of a run
prepare_vec(vec) == prepare_roi([j \in 1..Len(vec) |-> RegionFile(vec[j])])

\* ------------------------------------------------------ Output Partitioner
\* out_dir = directory / 'extracted'
OutDir == <<"directory", "extracted">>

\* the output paths, as the sequence of their parts; now is the run's
\* timestamp and flt is 1 for a run with the quality filter, 0 without
OutNameExtract(now, product, flt) ==
  OutDir \o DecStr(now) \o <<"_", product, "_">> \o DecStr(flt) \o <<".parquet">>
\* the region's name left out of its path
OutNameExtractSubsetNoRegion(now, product, flt, k) ==
  OutDir \o DecStr(now) \o <<"_", product, "_">> \o DecStr(flt) \o <<".parquet">>

OutNameExtractSubset(now, product, flt, k) ==
  OutDir \o DecStr(now) \o <<"_", product, "_">> \o DecStr(flt)
         \o <<"_", k, ".parquet">>
OutNameGedi(now, product) == OutDir \o DecStr(now) \o <<"__", product, ".parquet">>
OutNameGediSubset(now, product, k) ==
  OutDir \o DecStr(now) \o <<"__", product, "__subset_", k, ".parquet">>

\* the entry's polygon lost when its path is set
SetPathLosesGeo(v, path) == [geo |-> {}, gdf |-> v.gdf, path |-> path]

\* v['path'] = path on a region's entry
SetPath(v, path) == [geo |-> v.geo, gdf |-> v.gdf, path |-> path]

OutFile(name, gdf) == [name |-> name, rows |-> Len(gdf.rows)]

\* the path of a region's output file
RegionName(variant, now, product, flt, k) ==
  IF variant = "extract" THEN OutNameExtractSubset(now, product, flt, k)
  ELSE OutNameGediSubset(now, product, k)

\* extract.py records the path in the region's entry, gedi.py does not
PathSet(variant, v, path) == IF variant = "extract" THEN SetPath(v, path) ELSE v

\* one region of the write loop: v['path'] = None, and if the region has a
\* collection it is written (fails: to_parquet raises) and the path recorded
WriteRegion(variant, name, k, fails, acc) ==
  IF acc.od[k].gdf = None
  THEN [acc EXCEPT !.od[k] = PathSet(variant, @, <<>>)]
  ELSE IF fails
  THEN [acc EXCEPT !.od[k] = PathSet(variant, @, <<>>), !.raised = TRUE]
  ELSE [acc EXCEPT !.od[k] = PathSet(variant, @, name),
                   !.written = @ \cup {OutFile(name, acc.od[k].gdf)}]

\* for k, v in out_dict.items(): write the collection of every region that has
\* one; wfail is the region whose to_parquet raises (0 for none), which ends
\* the loop
RECURSIVE WriteRegions(_, _, _, _, _, _, _, _)
WriteRegions(variant, now, product, flt, regions, j, wfail, acc) ==
  IF j > Len(regions) \/ acc.raised THEN acc
  ELSE WriteRegions(variant, now, product, flt, regions, j + 1, wfail,
                    WriteRegion(variant,
                                RegionName(variant, now, product, flt, regions[j]),
                                regions[j], wfail = j, acc))

\* pd.concat(list of tables)
RECURSIVE ConcatAll(_)
ConcatAll(lst) ==
  IF Len(lst) = 1 THEN lst[1] ELSE Concat(lst[1], ConcatAll(Tail(lst)))

\* ------------------------------------------------------ Coordinate Mapping
\* the largest grid side
MaxDim == 3

\* np.arange(dim_1_len * dim_2_len).reshape(dim_1_len, dim_2_len): the cell
\* numbers in row-major order, indexed from 0
Arange(dim_1_len, dim_2_len) ==
  [d1 \in 0..(dim_1_len - 1) |-> [d2 \in 0..(dim_2_len - 1) |-> d1 * dim_2_len + d2]]

\* a value returned, or an exception raised
Returned(v) == [raised |-> FALSE, value |-> v]
RaisedIndexError == [raised |-> TRUE, value |-> "IndexError"]

\* numpy's arr[d1_id, d2_id]: an index below 0 counts from the end of its
\* axis, an index outside -len..len-1 raises IndexError
NumpyItem(arr, shape, d1_id, d2_id) ==
  IF /\ d1_id >= -shape[1] /\ d1_id < shape[1]
     /\ d2_id >= -shape[2] /\ d2_id < shape[2]
  THEN Returned(arr[d1_id % shape[1]][d2_id % shape[2]])
  ELSE RaisedIndexError

\* CoordinateMapping.get_mapping_index
get_mapping_index(arr, shape, d1_id, d2_id) ==
  IF d1_id < shape[1] /\ d2_id < shape[2]
  THEN NumpyItem(arr, shape, d1_id, d2_id)
  ELSE Returned(-1)

\* the pairs sample_index looks up, in its order
SamplePairs(d1_id, d2_id, how) ==
  CASE how = "point" -> << <<d1_id, d2_id>> >>
    [] how = "cross" -> << <<d1_id - 1, d2_id>>,
                           <<d1_id, d2_id - 1>>, <<d1_id, d2_id>>, <<d1_id, d2_id + 1>>,
                           <<d1_id + 1, d2_id>> >>
    [] how = "square" -> [n \in 1..9 |->
                            <<d1_id - 1 + ((n - 1) \div 3), d2_id - 1 + ((n - 1) % 3)>>]

\* CoordinateMapping.sample_index: the list of the cell numbers of the
\* pairs; a lookup that raises ends the call
sample_index(arr, shape, d1_id, d2_id, how) ==
  IF how \notin {"point", "cross", "square"}
  THEN [raised |-> TRUE, value |-> "RuntimeError"]
  ELSE LET got == [n \in DOMAIN SamplePairs(d1_id, d2_id, how) |->
                     get_mapping_index(arr, shape, SamplePairs(d1_id, d2_id, how)[n][1],
                                       SamplePairs(d1_id, d2_id, how)[n][2])]
       IN IF \E n \in DOMAIN got : got[n].raised THEN RaisedIndexError
          ELSE Returned([n \in DOMAIN got |-> got[n].value])

\* the cell number divided by the length of the first axis
revert_mapping_by_rows(shape, n) == <<n \div shape[1], n % shape[1]>>

\* CoordinateMapping.revert_mapping: d1 = mapping // map_shape[1] and
\* d2 = mapping % map_shape[1] (map_shape[1] is the length of the second axis)
revert_mapping(shape, n) == <<n \div shape[2], n % shape[2]>>

\* ------------------------------------------------------------- Downloader
\* the calls of download_data a process makes
MaxCalls == 2

\* None, as an argument of download_data and as the job-id file that is absent
NoJob == <<>>

\* the keys of con.PRODUCT_MAPPING
PRODUCT_MAPPING == {"L2A", "L2B"}

\* the id the processing service gives its k-th job
NewJobId(k) == <<"job", k>>

\* the state download_data works on: the content of the job-id file (NoJob
\* if there is none), the requests the service has received, the jobs whose
\* error details were saved, and the number of jobs the service has accepted
DlState(file, reqs, errors, jobs) ==
  [file |-> file, requests |-> reqs, error_json |-> errors, jobs |-> jobs]

\* what a call gives: the exception it leaves with (known: the job id was
\* known when it was raised) or the value it returns
DlRaised(e, known, job_id) ==
  [kind |-> "raised", exc |-> e, known |-> known, job_id |-> job_id]
DlValue(files, job_id) == [kind |-> "value", files |-> files, job_id |-> job_id]
DlOutcome(st, r) == [st |-> st, ret |-> r]

\* _get_bbox
get_bbox(subset_vector, subset_bbox) ==
  IF subset_vector = <<>> /\ subset_bbox = <<>>
  THEN [raised |-> TRUE, value |-> "ValueError"]
  ELSE IF subset_vector # <<>> THEN Returned(<<"total_bounds", subset_vector>>)
  ELSE Returned(<<"BBox", subset_bbox>>)

\* a request submitted whether a job id is given or not
NeedsSubmitAlways(job_id) == TRUE

\* if job_id is None
NeedsSubmit(job_id) == job_id = NoJob

\* Request(collection, spatial=bbox, temporal=time_range)
Request(short_name, bbox, time_range) ==
  [collection |-> short_name, spatial |-> bbox, temporal |-> time_range]

\* the state after the job jid was submitted for the arguments and its id
\* written to the job-id file
Submitted(args, st, jid) ==
  [st EXCEPT !.requests = @ \o << <<"capabilities", args.gedi_product>>,
                                  <<"submit",
                                    Request(args.gedi_product,
                                            get_bbox(args.subset_vector,
                                                     args.subset_bbox).value,
                                            args.time_range)>> >>,
             !.jobs = @ + 1,
             !.file = jid]

\* the job id the call goes on with: a new request is submitted and its job
\* id written to the job-id file, or the given job id is written to it
JobOf(args, st) ==
  IF NeedsSubmit(args.job_id)
  THEN IF get_bbox(args.subset_vector, args.subset_bbox).raised
       THEN [raised |-> TRUE, st |-> st, job_id |-> NoJob]
       ELSE [raised |-> FALSE, st |-> Submitted(args, st, NewJobId(st.jobs + 1)),
             job_id |-> NewJobId(st.jobs + 1)]
  ELSE [raised |-> FALSE, st |-> [st EXCEPT !.file = args.job_id],
        job_id |-> args.job_id]

\* _failed_status: the error details are saved, the job-id file is removed
\* if it exists, and RuntimeError is raised
failed_status(st, job_id) ==
  [st EXCEPT !.error_json = @ \cup {job_id}, !.file = NoJob]

\* what the service may answer: the status result_json reports, or the
\* exception or interrupt that ends the call; the number of files
\* download_all gives, or the exception or interrupt that ends the call
Stops == {"KeyboardInterrupt", "Exception"}
PollAnswers == {"successful", "complete", "failed", "running"} \cup Stops
DownloadAnswers == {"no file", "one file"} \cup Stops

\* len(file_paths)
Files(dl) == IF dl = "one file" THEN 1 ELSE 0

\* harmony_client.download_all(job_id) and the lines after it: dl is what
\* the service answers
DownloadAll(st, job_id, dl) ==
  IF dl \in Stops
  THEN DlOutcome(st, DlRaised(dl, TRUE, job_id))
  ELSE DlOutcome([st EXCEPT !.file = NoJob], DlValue(Files(dl), job_id))

\* the try block: harmony_client.result_json(job_id), the status, the
\* download; the except clause raises again what was raised
TryBlock(st, job_id, poll, dl) ==
  IF poll \in Stops
  THEN DlOutcome(st, DlRaised(poll, TRUE, job_id))
  ELSE IF poll = "failed"
  THEN DlOutcome(failed_status(st, job_id), DlRaised("RuntimeError", TRUE, job_id))
  ELSE DownloadAll([st EXCEPT !.requests = Append(@, <<"download_all", job_id>>)],
                   job_id, dl)

\* the call from the job id on: j is what JobOf gave
FromJob(j, poll, dl) ==
  IF j.raised THEN DlOutcome(j.st, DlRaised("ValueError", FALSE, NoJob))
  ELSE TryBlock([j.st EXCEPT !.requests = Append(@, <<"result_json", j.job_id>>)],
                j.job_id, poll, dl)

\* download_data
download_data(args, st, poll, dl) ==
  IF args.gedi_product \notin PRODUCT_MAPPING
  THEN DlOutcome(st, DlRaised("ValueError", FALSE, NoJob))
  ELSE IF ~args.directory_exists
  THEN DlOutcome(st, DlRaised("ValueError", FALSE, NoJob))
  ELSE FromJob(JobOf(args, st), poll, dl)

\* ------------------------------------------------------------------ state
VARIABLES
  pc,            \* where the call of extract_data stands; "idle" between calls
  run,           \* the number of calls made in this process; the run timestamp
  cfg,           \* the arguments of the call
  filter_month,  \* the local filter_month
  nfiles,        \* len(filepaths)
  i,             \* the number of files the loop has gone through
  gdf_list_no_spatial_subset,      \* gdf_list_no_spatial_subset
  out_dict,      \* out_dict, None without regions
  tmp_dirs,      \* the local tmp_dirs of gedi.py
  tmp_disk,      \* the temporary directories that exist on disk
  handlers,      \* the FileHandlers attached to the logger
  error_tracker, \* anc.error_tracker.count
  N_ERRORS,      \* the module global of gedi.py
  open_h5,       \* the files of this run opened and not closed by the run
  written,       \* the output files this run has written
  pending,       \* what the call is about to give its caller
  ret,           \* what the last call gave its caller
  warnings,      \* the summary warnings this run has printed
  flog,          \* per file gone through: what it was and what became of it
  exc,           \* what raised into the outer except clause, "" if nothing
  log,           \* the messages of the run's log that name no file
  df,            \* a table handed to _filter_quality on its own
  filtered       \* what the applications of _filter_quality to df gave

\* the state of the modules beside the extraction
VARIABLES
  mapping,       \* CoordinateMapping.mapping
  map_shape,     \* CoordinateMapping.map_shape
  answer,        \* the last call of a method of the mapping and what it gave
  dl_calls,      \* the number of calls of download_data made
  dl_args,       \* the arguments of the last call of download_data
  job_id_file,   \* the content of .harmony_job_id, NoJob if it does not exist
  requests,      \* the requests the processing service has received
  error_json,    \* the jobs whose <job_id>_error.json exists
  jobs,          \* the number of jobs the service has accepted
  dl_ret,        \* what the last call of download_data gave its caller
  roi_vec,       \* the list of vector files prepare_roi is called with
  roi_out        \* what prepare_roi returned, NotCalled before the call

mapVars == <<mapping, map_shape, answer>>
dlVars == <<dl_calls, dl_args, job_id_file, requests, error_json, jobs, dl_ret>>
roiVars == <<roi_vec, roi_out>>
toolVars == <<mapVars, dlVars, roiVars>>

vars == <<pc, run, cfg, filter_month, nfiles, i, gdf_list_no_spatial_subset, out_dict, tmp_dirs,
          tmp_disk, handlers, error_tracker, N_ERRORS, open_h5, written, pending,
          ret, warnings, flog, exc, log, df, filtered, toolVars>>

\* no call of a method beside the extraction yet
NoAnswer == [op |-> "none"]

\* no mapping constructed
NoMapping ==
  /\ mapping = <<>>
  /\ map_shape = <<0, 0>>
  /\ answer = NoAnswer

\* no call of download_data made
NoDownload ==
  /\ dl_calls = 0
  /\ dl_args = <<>>
  /\ job_id_file = NoJob
  /\ requests = <<>>
  /\ error_json = {}
  /\ jobs = 0
  /\ dl_ret = [kind |-> "none"]

NotCalled == [called |-> FALSE]

\* no call of prepare_roi on its own
NoRoi ==
  /\ roi_vec = <<>>
  /\ roi_out = NotCalled

\* the modules beside the extraction not in use
NoTool ==
  /\ NoMapping
  /\ NoDownload
  /\ NoRoi

extractVars == <<pc, run, cfg, filter_month, nfiles, i, gdf_list_no_spatial_subset, out_dict,
                 tmp_dirs, tmp_disk, handlers, error_tracker, N_ERRORS, open_h5, written,
                 pending, ret, warnings, flog, exc, log, df, filtered>>

\* the arguments a call may be given.  filter_month and subset_vector <<>>
\* stand for None.  A gedi_product outside ALLOWED_PRODUCTS raises before the
\* call touches any state, so such a call is a stuttering step.
FilterArgs == {<<>>, <<6, 8>>, <<8, 6>>}
SubsetArgs == {<<>>, <<"A", "B">>, <<"A", "B", "C">>}

Configs ==
  { c \in [variant : {"extract", "gedi"}, gedi_product : ALLOWED_PRODUCTS,
           filter_month : FilterArgs, subset_vector : SubsetArgs,
           apply_quality_filter : BOOLEAN, temp_unpack_zip : BOOLEAN] :
      c.variant = "extract" => ~c.temp_unpack_zip }

\* the arguments of the run of Spec
ConfigsExtract ==
  { c \in Configs : /\ c.variant = "extract"
                    /\ c.filter_month # <<>>
                    /\ c.subset_vector \in {<<>>, <<"A", "B">>} }

\* the arguments of the run of SpecRegions
ConfigsRegions ==
  { c \in Configs : /\ c.variant = "extract"
                    /\ c.gedi_product = "L2B"
                    /\ c.filter_month = <<6, 8>>
                    /\ c.subset_vector = <<"A", "B", "C">> }

\* the arguments of the runs of SpecRuns
ConfigsRuns ==
  { c \in Configs : /\ c.gedi_product = "L2B"
                    /\ c.filter_month = <<>>
                    /\ c.subset_vector \in {<<>>, <<"A", "B">>}
                    /\ c.apply_quality_filter }

NoCfg == [variant |-> "extract", gedi_product |-> "L2B", filter_month |-> <<>>,
          subset_vector |-> <<>>, apply_quality_filter |-> TRUE,
          temp_unpack_zip |-> FALSE]

NoRet == [kind |-> "none"]
RetNone == [kind |-> "None"]
RetRaised == [kind |-> "raised"]
RetValue(out, path) == [kind |-> "value", out |-> out, path |-> path]

\* no call of extract_data made and none to come: p names what the process
\* does instead
NoExtract(p) ==
  /\ pc = p
  /\ run = 0
  /\ cfg = NoCfg
  /\ filter_month = DEFAULT_FILTER_MONTH
  /\ nfiles = 0
  /\ i = 0
  /\ gdf_list_no_spatial_subset = <<>>
  /\ out_dict = None
  /\ tmp_dirs = None
  /\ tmp_disk = {}
  /\ handlers = {}
  /\ error_tracker = 0
  /\ N_ERRORS = 0
  /\ open_h5 = {}
  /\ written = {}
  /\ pending = NoRet
  /\ ret = NoRet
  /\ warnings = 0
  /\ flog = <<>>
  /\ exc = ""
  /\ log = <<>>
  /\ df = EmptyTable
  /\ filtered = <<>>

Init ==
  /\ pc = "idle"
  /\ run = 0
  /\ cfg = NoCfg
  /\ filter_month = DEFAULT_FILTER_MONTH
  /\ nfiles = 0
  /\ i = 0
  /\ gdf_list_no_spatial_subset = <<>>
  /\ out_dict = None
  /\ tmp_dirs = None
  /\ tmp_disk = {}
  /\ handlers = {}
  /\ error_tracker = 0
  /\ N_ERRORS = 0
  /\ open_h5 = {}
  /\ written = {}
  /\ pending = NoRet
  /\ ret = NoRet
  /\ warnings = 0
  /\ flog = <<>>
  /\ exc = ""
  /\ log = <<>>
  /\ df = EmptyTable
  /\ filtered = <<>>
  /\ NoTool

\* ---------------------------------------------------------------- actions
\* extract_data up to its outer try block: set_logging, the reset of the
\* error tracker (extract.py), the defaults, and prepare_vec, which raises to
\* the caller when a vector file cannot be loaded (vecOk is FALSE)
Begin(cfgs, maxRuns) ==
  /\ UNCHANGED toolVars
  /\ pc = "idle"
  /\ run < maxRuns
  /\ \E c \in cfgs, vecOk \in BOOLEAN :
       /\ (c.subset_vector = <<>> => vecOk)
       /\ cfg' = c
       /\ run' = run + 1
       /\ handlers' = set_logging(handlers, run + 1)
       /\ error_tracker' = IF c.variant = "extract"
                           THEN ErrorTrackerReset(error_tracker) ELSE error_tracker
       /\ filter_month' = IF c.filter_month = <<>> THEN DEFAULT_FILTER_MONTH
                          ELSE c.filter_month
       /\ IF vecOk
          THEN /\ out_dict' = IF c.subset_vector = <<>> THEN None
                              ELSE prepare_vec(c.subset_vector)
               /\ pc' = "discover"
               /\ ret' = NoRet
          ELSE /\ out_dict' = None
               /\ pc' = "idle"
               /\ ret' = RetRaised
       /\ nfiles' = 0
       /\ i' = 0
       /\ gdf_list_no_spatial_subset' = <<>>
       /\ tmp_dirs' = None
       /\ open_h5' = {}
       /\ written' = {}
       /\ pending' = NoRet
       /\ warnings' = 0
       /\ flog' = <<>>
       /\ exc' = ""
       /\ log' = <<>>
       /\ UNCHANGED <<tmp_disk, N_ERRORS, df, filtered>>

\* step (1): the search for files.  With temp_unpack_zip (gedi.py) every zip
\* gets a temporary directory before the first one is unpacked; zfail is the
\* archive whose extractall raises (0 for none), which leaves
\* _filepaths_from_zips before it returns the directories.  No file found is
\* a RuntimeError inside the outer try block.
Discover ==
  /\ UNCHANGED toolVars
  /\ pc = "discover"
  /\ IF cfg.variant = "gedi" /\ cfg.temp_unpack_zip
     THEN \E nzip \in 0..MaxZips, zfail \in 0..MaxZips, n \in 0..MaxFiles :
            /\ zfail <= nzip
            /\ (nzip = 0 \/ zfail > 0) => n = 0
            /\ LET dirs == {<<run, z>> : z \in 1..nzip}
               IN IF zfail > 0
                  THEN /\ tmp_disk' = tmp_disk \cup dirs
                       /\ tmp_dirs' = None
                       /\ nfiles' = 0
                       /\ pc' = "except"
                       /\ exc' = "unpack"
                  ELSE IF n = 0
                  THEN /\ tmp_dirs' = [set |-> dirs]
                       /\ tmp_disk' = cleanup_tmp_dirs(tmp_disk \cup dirs, [set |-> dirs])
                       /\ nfiles' = 0
                       /\ pc' = "except"
                       /\ exc' = "nofiles"
                  ELSE /\ tmp_dirs' = [set |-> dirs]
                       /\ tmp_disk' = tmp_disk \cup dirs
                       /\ nfiles' = n
                       /\ pc' = "loop"
                       /\ exc' = ""
     ELSE \E n \in 0..MaxFiles :
            /\ nfiles' = n
            /\ pc' = IF n = 0 THEN "except" ELSE "loop"
            /\ exc' = IF n = 0 THEN "nofiles" ELSE ""
            /\ UNCHANGED <<tmp_dirs, tmp_disk>>
  /\ UNCHANGED <<run, cfg, filter_month, i, gdf_list_no_spatial_subset, out_dict, handlers,
                 error_tracker, N_ERRORS, open_h5, written, pending, ret, warnings,
                 flog, log, df, filtered>>

\* a file no step of the pipeline can fail on
ValidFile(file) ==
  /\ file.date # 0
  /\ file.open
  /\ \A b \in DOMAIN file.beams :
       LET beam == file.beams[b]
       IN beam.present /\ beam.hasShotNumber /\ beam.failAt = 0 /\ beam.shots # <<>>

BeamNames == {Beams[b] : b \in 1..Len(Beams)}

\* what the log tells of one file: the month its name decodes to (0 for
\* none), what became of it ("fatal", "skipped", "error", "ok"), its beam-level
\* errors, whether it was a valid file, and the rows of its table
\* and, of a file the inner try block took up (d): whether it opened, the
\* informational beam skips, the shots of the beams read without an error (by
\* kind, in beam order) and the shot cells of the table it ended with
FileLog(date, status, errs, valid, rows, d) ==
  [date |-> date, status |-> status, errs |-> errs, valid |-> valid, rows |-> rows,
   opened |-> d.opened, infos |-> d.infos, shots |-> d.shots, cells |-> d.cells]

NoDetail == [opened |-> FALSE, infos |-> 0, shots |-> <<>>, cells |-> {}]

\* a beam every layer of which is read
BeamRead(variant, beam) ==
  ~BeamSkipped(variant, beam) /\ beam.failAt = 0 /\ beam.hasShotNumber

RECURSIVE ShotsRead(_, _, _)
ShotsRead(variant, file, b) ==
  IF b > Len(Beams) THEN <<>>
  ELSE (IF BeamRead(variant, file.beams[Beams[b]])
        THEN file.beams[Beams[b]].shots ELSE <<>>)
       \o ShotsRead(variant, file, b + 1)

FileDetail(variant, file, r) ==
  [opened |-> r.opened, infos |-> r.infos,
   shots |-> IF r.opened THEN ShotsRead(variant, file, 1) ELSE <<>>,
   cells |-> {r.gdf.rows[j]["shot"] : j \in 1..Len(r.gdf.rows)}]

FileOf(date, open, beams) == [date |-> date, open |-> open, beams |-> beams]

\* the inner try block on a file and on what steps (3) to (5) gave for it (r):
\* the counting, and step (6)
FileEffect(file, r, sub) ==
  /\ flog' = Append(flog,
                    FileLog(file.date, IF r.raised \/ sub.raised THEN "error" ELSE "ok",
                            r.errs, ValidFile(file), Len(r.gdf.rows),
                            FileDetail(cfg.variant, file, r)))
  /\ error_tracker' = IF cfg.variant = "extract"
                      THEN ErrorTrackerIncrement(error_tracker,
                                                 r.errs + (IF r.raised \/ sub.raised
                                                           THEN 1 ELSE 0))
                      ELSE error_tracker
  /\ N_ERRORS' = IF cfg.variant = "gedi"
                 THEN error_counter(N_ERRORS, r.errs + (IF r.raised \/ sub.raised
                                                        THEN 1 ELSE 0))
                 ELSE N_ERRORS
  /\ open_h5' = IF r.opened /\ (r.raised \/ sub.raised) THEN open_h5 \cup {i + 1}
                ELSE open_h5
  /\ IF r.raised THEN UNCHANGED <<gdf_list_no_spatial_subset, out_dict>>
     ELSE IF cfg.subset_vector # <<>>
     THEN /\ out_dict' = sub.od
          /\ UNCHANGED gdf_list_no_spatial_subset
     ELSE /\ gdf_list_no_spatial_subset' =
               AppendGlobal(cfg.variant, gdf_list_no_spatial_subset, r.gdf)
          /\ UNCHANGED out_dict

\* the inner try block on what steps (3) to (5) gave for the file (r)
FileSteps(file, r, sfail) ==
  FileEffect(file, r, SubsetStep(cfg.subset_vector, r, out_dict, sfail))

ProcessFile(date, file, emptyRaises, sfail) ==
  FileSteps(file,
            FilePipeline(cfg.variant, file, i + 1, cfg.gedi_product,
                         cfg.apply_quality_filter, emptyRaises),
            sfail)

\* one iteration of the loop over the files (steps (2) to (6)).  The date is
\* decoded and compared outside the inner try block; what raises inside it is
\* logged and counted, and the loop goes on.  The beam-level increments of
\* _from_file are counted whether or not the file raises later.  faults are
\* the regions at which step (6) may raise (0: it does not raise).
FileIteration(dates, kinds, kinds2, faults) ==
  /\ UNCHANGED toolVars
  /\ pc = "loop"
  /\ i < nfiles
  /\ \E date \in dates :
       IF date = 0
       THEN /\ pc' = "except"
            /\ exc' = "date"
            /\ flog' = Append(flog, FileLog(0, "fatal", 0, FALSE, 0, NoDetail))
            /\ UNCHANGED <<filter_month, i, gdf_list_no_spatial_subset, out_dict, error_tracker,
                           N_ERRORS, open_h5>>
       ELSE
         LET fm == NormalisedMonths(cfg.variant, filter_month)
         IN /\ filter_month' = fm
            /\ i' = i + 1
            /\ UNCHANGED <<pc, exc>>
            /\ IF ~InMonthRange(fm, date)
               THEN /\ flog' = Append(flog, FileLog(date, "skipped", 0, FALSE, 0, NoDetail))
                    /\ UNCHANGED <<gdf_list_no_spatial_subset, out_dict, error_tracker, N_ERRORS,
                                   open_h5>>
               ELSE \E open \in BOOLEAN :
                      \E beams \in IF open
                                   THEN {bs \in [BeamNames -> kinds \cup kinds2] :
                                           /\ bs[Beams[1]] \in kinds
                                           /\ bs[Beams[2]] \in kinds2}
                                   ELSE {[b \in BeamNames |-> BeamRec(FALSE, FALSE, <<>>, 0)]} :
                        \E emptyRaises \in BOOLEAN, sfail \in faults :
                          ProcessFile(date, FileOf(date, open, beams), emptyRaises, sfail)
  /\ UNCHANGED <<run, cfg, nfiles, tmp_dirs, tmp_disk, handlers, written, pending,
                 ret, warnings, log, df, filtered>>

Flt(quality) == IF quality THEN 1 ELSE 0

\* steps (7) and (8) of extract.py: the writes and the value to return
WriteOutputsExtract ==
  /\ UNCHANGED toolVars
  /\ pc = "loop"
  /\ i = nfiles
  /\ cfg.variant = "extract"
  /\ IF cfg.subset_vector # <<>>
     THEN \E wfail \in 0..Len(cfg.subset_vector) :
            LET w == WriteRegions("extract", run, cfg.gedi_product,
                                  Flt(cfg.apply_quality_filter), cfg.subset_vector, 1,
                                  wfail, [od |-> out_dict, written |-> written,
                                          raised |-> FALSE])
            IN /\ out_dict' = w.od
               /\ written' = w.written
               /\ UNCHANGED log
               /\ IF w.raised
                  THEN /\ pc' = "except"
                       /\ exc' = "write"
                       /\ UNCHANGED pending
                  ELSE /\ pc' = "finally"
                       /\ pending' = RetValue(w.od, <<>>)
                       /\ UNCHANGED exc
     ELSE /\ UNCHANGED out_dict
          /\ IF gdf_list_no_spatial_subset # <<>>
             THEN \E wfail \in BOOLEAN :
                    LET out == ConcatAll(gdf_list_no_spatial_subset)
                        out_path == OutNameExtract(run, cfg.gedi_product,
                                                   Flt(cfg.apply_quality_filter))
                    IN IF wfail
                       THEN /\ pc' = "except"
                            /\ exc' = "write"
                            /\ UNCHANGED <<pending, written, log>>
                       ELSE /\ pc' = "finally"
                            /\ written' = written \cup {OutFile(out_path, out)}
                            /\ pending' = RetValue(out, out_path)
                            /\ UNCHANGED <<exc, log>>
             ELSE /\ pc' = "finally"
                  /\ log' = Append(log, <<"info", "no output file created">>)
                  /\ pending' = RetValue(EmptyTable, <<>>)
                  /\ UNCHANGED <<exc, written>>
  /\ UNCHANGED <<run, cfg, filter_month, nfiles, i, gdf_list_no_spatial_subset, tmp_dirs, tmp_disk,
                 handlers, error_tracker, N_ERRORS, open_h5, ret, warnings, flog,
                 df, filtered>>

\* steps (7) and (8) of gedi.py: pd.concat raises on an empty list
WriteOutputsGedi ==
  /\ UNCHANGED toolVars
  /\ pc = "loop"
  /\ i = nfiles
  /\ cfg.variant = "gedi"
  /\ UNCHANGED log
  /\ IF cfg.subset_vector # <<>>
     THEN \E wfail \in 0..Len(cfg.subset_vector) :
            LET w == WriteRegions("gedi", run, cfg.gedi_product, 0,
                                  cfg.subset_vector, 1, wfail,
                                  [od |-> out_dict, written |-> written,
                                   raised |-> FALSE])
            IN /\ out_dict' = w.od
               /\ written' = w.written
               /\ IF w.raised
                  THEN /\ pc' = "except"
                       /\ exc' = "write"
                       /\ UNCHANGED pending
                  ELSE /\ pc' = "finally"
                       /\ pending' = [kind |-> "value", out |-> w.od]
                       /\ UNCHANGED exc
     ELSE /\ UNCHANGED out_dict
          /\ IF gdf_list_no_spatial_subset = <<>>
             THEN /\ pc' = "except"
                  /\ exc' = "concat"
                  /\ UNCHANGED <<pending, written>>
             ELSE \E wfail \in BOOLEAN :
                    LET out == ConcatAll(gdf_list_no_spatial_subset)
                    IN IF wfail
                       THEN /\ pc' = "except"
                            /\ exc' = "write"
                            /\ UNCHANGED <<pending, written>>
                       ELSE /\ pc' = "finally"
                            /\ written' = written \cup
                                 {OutFile(OutNameGedi(run, cfg.gedi_product), out)}
                            /\ pending' = [kind |-> "value", out |-> out]
                            /\ UNCHANGED exc
  /\ UNCHANGED <<run, cfg, filter_month, nfiles, i, gdf_list_no_spatial_subset, tmp_dirs, tmp_disk,
                 handlers, error_tracker, N_ERRORS, open_h5, ret, warnings, flog,
                 df, filtered>>

\* the outer except clause: the exception is logged and counted, and not
\* raised again, so the call goes on to return None.  The temporary
\* directories of a failed unpacking are referenced by the exception's
\* traceback alone: whether they are removed is up to the garbage collector.
OuterExcept ==
  /\ UNCHANGED toolVars
  /\ pc = "except"
  /\ error_tracker' = IF cfg.variant = "extract"
                      THEN ErrorTrackerIncrement(error_tracker, 1) ELSE error_tracker
  /\ N_ERRORS' = IF cfg.variant = "gedi" THEN error_counter(N_ERRORS, 1)
                 ELSE N_ERRORS
  /\ IF exc = "unpack"
     THEN \E collected \in BOOLEAN :
            tmp_disk' = IF collected THEN {d \in tmp_disk : d[1] # run} ELSE tmp_disk
     ELSE UNCHANGED tmp_disk
  /\ log' = Append(log, <<"exception", exc>>)
  /\ pending' = RetNone
  /\ pc' = "finally"
  /\ UNCHANGED <<run, cfg, filter_month, nfiles, i, gdf_list_no_spatial_subset, out_dict, tmp_dirs,
                 handlers, open_h5, written, ret, warnings, flog, exc, df, filtered>>

\* the count the finally block reads
ErrorCount == IF cfg.variant = "extract" THEN error_tracker ELSE N_ERRORS

\* the finally block: the temporary directories (gedi.py), close_logging, the
\* summary warning; then the call returns what is pending
Finally ==
  /\ UNCHANGED toolVars
  /\ pc = "finally"
  /\ tmp_disk' = IF cfg.variant = "gedi" THEN cleanup_tmp_dirs(tmp_disk, tmp_dirs)
                 ELSE tmp_disk
  /\ handlers' = close_logging(handlers)
  /\ warnings' = warnings + SummaryWarnings(ErrorCount)
  /\ ret' = pending
  /\ pc' = "idle"
  /\ UNCHANGED <<run, cfg, filter_month, nfiles, i, gdf_list_no_spatial_subset, out_dict, tmp_dirs,
                 error_tracker, N_ERRORS, open_h5, written, pending, flog, exc, log,
                 df, filtered>>

\* the beam contents of the runs of SpecRuns
BeamKindsRuns ==
  { BeamRec(TRUE, TRUE, <<"good_A">>, 0),
    BeamRec(TRUE, TRUE, <<"good_A">>, 3) }

FileDatesRuns == {0, 7}

BeamKindsRunsSecond == { BeamRec(FALSE, FALSE, <<>>, 0) }

\* one run of extract_data of extract.py in a fresh process
Next ==
  \/ Begin(ConfigsExtract, 1)
  \/ Discover
  \/ FileIteration(FileDates, BeamKinds, BeamKindsSecond, {0})
  \/ WriteOutputsExtract
  \/ OuterExcept
  \/ Finally

Spec == Init /\ [][Next]_vars

\* up to MaxRuns runs in one process
NextRuns ==
  \/ Begin(ConfigsRuns, MaxRuns)
  \/ Discover
  \/ FileIteration(FileDatesRuns, BeamKindsRuns, BeamKindsRunsSecond, {0})
  \/ WriteOutputsExtract
  \/ WriteOutputsGedi
  \/ OuterExcept
  \/ Finally

SpecRuns == Init /\ [][NextRuns]_vars

\* one run of extract.py with the three regions A, B and C
NextRegions ==
  \/ Begin(ConfigsRegions, 1)
  \/ Discover
  \/ FileIteration(FileMonths, BeamKinds, BeamKindsSecond, {0})
  \/ WriteOutputsExtract
  \/ OuterExcept
  \/ Finally

SpecRegions == Init /\ [][NextRegions]_vars

\* one run of extract_data of extract.py with three regions in which the
\* loop over the regions may raise at any of them
SubsetFaults == 0..3

NextSubsetFaults ==
  \/ Begin(ConfigsRegions, 1)
  \/ Discover
  \/ FileIteration(FileMonths, BeamKinds, BeamKindsSecond, SubsetFaults)
  \/ WriteOutputsExtract
  \/ OuterExcept
  \/ Finally

SpecSubsetFaults == Init /\ [][NextSubsetFaults]_vars

\* ------------------------------------------- the quality filter on its own
\* the tables _filter_quality may be handed: those pd.DataFrame makes of
\* _from_file's columns for a file with one beam of up to MaxRows shots
RECURSIVE SeqsUpTo(_, _)
SeqsUpTo(S, n) ==
  IF n = 0 THEN {<<>>}
  ELSE LET shorter == SeqsUpTo(S, n - 1)
       IN shorter \cup {Append(q, x) : q \in shorter, x \in S}

OneBeamFile(shots) ==
  [date |-> 7, open |-> TRUE,
   beams |-> [b \in BeamNames |->
                IF b = Beams[1] THEN BeamRec(TRUE, TRUE, shots, 0)
                ELSE BeamRec(FALSE, FALSE, <<>>, 0)]]

FilterTables ==
  { DataFrame(from_file("extract", OneBeamFile(shots), 1, Layers(p)).out).df :
      shots \in SeqsUpTo(ShotKinds, MaxRows), p \in ALLOWED_PRODUCTS }

InitFilter ==
  /\ pc = "filter"
  /\ run = 0
  /\ cfg = NoCfg
  /\ filter_month = DEFAULT_FILTER_MONTH
  /\ nfiles = 0
  /\ i = 0
  /\ gdf_list_no_spatial_subset = <<>>
  /\ out_dict = None
  /\ tmp_dirs = None
  /\ tmp_disk = {}
  /\ handlers = {}
  /\ error_tracker = 0
  /\ N_ERRORS = 0
  /\ open_h5 = {}
  /\ written = {}
  /\ pending = NoRet
  /\ ret = NoRet
  /\ warnings = 0
  /\ flog = <<>>
  /\ exc = ""
  /\ log = <<>>
  /\ df \in FilterTables
  /\ filtered = <<>>
  /\ NoTool

\* df = _filter_quality(df): the filter applied to the table, then to what it
\* returned
CallFilter ==
  /\ UNCHANGED toolVars
  /\ pc = "filter"
  /\ Len(filtered) < MaxApplications
  /\ IF filtered = <<>> THEN TRUE ELSE ~filtered[Len(filtered)].raised
  /\ filtered' = Append(filtered,
                        filter_quality(IF filtered = <<>> THEN df
                                       ELSE filtered[Len(filtered)].df))
  /\ UNCHANGED <<pc, run, cfg, filter_month, nfiles, i, gdf_list_no_spatial_subset,
                 out_dict, tmp_dirs, tmp_disk, handlers, error_tracker, N_ERRORS,
                 open_h5, written, pending, ret, warnings, flog, exc, log, df>>

NextFilter == CallFilter

SpecFilter == InitFilter /\ [][NextFilter]_vars

\* ---------------------------------------- the coordinate mapping on its own
\* the indices and the cell numbers the methods are called with
IndexArgs == (-(MaxDim + 1))..(MaxDim + 1)
CellArgs == 0..(MaxDim * MaxDim)

\* CoordinateMapping(dim_1_start, dim_2_start, dim_1_len, dim_2_len,
\* resolution): create_mapping
InitMapping ==
  /\ NoExtract("mapping")
  /\ \E dim_1_len \in 1..MaxDim, dim_2_len \in 1..MaxDim :
       /\ mapping = Arange(dim_1_len, dim_2_len)
       /\ map_shape = <<dim_1_len, dim_2_len>>
  /\ answer = NoAnswer
  /\ NoDownload
  /\ NoRoi

GetMappingIndex ==
  /\ pc = "mapping"
  /\ \E d1_id \in IndexArgs, d2_id \in IndexArgs :
       answer' = [op |-> "get_mapping_index", args |-> <<d1_id, d2_id>>,
                  got |-> get_mapping_index(mapping, map_shape, d1_id, d2_id)]
  /\ UNCHANGED <<extractVars, mapping, map_shape, dlVars, roiVars>>

SampleIndex ==
  /\ pc = "mapping"
  /\ \E d1_id \in IndexArgs, d2_id \in IndexArgs, how \in {"point", "cross", "square"} :
       answer' = [op |-> "sample_index", args |-> <<d1_id, d2_id>>, how |-> how,
                  got |-> sample_index(mapping, map_shape, d1_id, d2_id, how)]
  /\ UNCHANGED <<extractVars, mapping, map_shape, dlVars, roiVars>>

RevertMapping ==
  /\ pc = "mapping"
  /\ \E n \in CellArgs :
       answer' = [op |-> "revert_mapping", args |-> n,
                  got |-> revert_mapping(map_shape, n)]
  /\ UNCHANGED <<extractVars, mapping, map_shape, dlVars, roiVars>>

NextMapping ==
  \/ GetMappingIndex
  \/ SampleIndex
  \/ RevertMapping

SpecMapping == InitMapping /\ [][NextMapping]_vars

\* ------------------------------------------------- the downloader on its own
\* the arguments of a call of download_data; <<>> stands for None
DownloadArgs ==
  [gedi_product : {"L2A", "L9"}, directory_exists : BOOLEAN,
   time_range : {<<>>, <<"2020-01-01", "2020-01-31">>},
   subset_vector : {<<>>, <<"roi.geojson">>},
   subset_bbox : {<<>>, <<-10, 40, 5, 50>>},
   job_id : {NoJob, NewJobId(1), NewJobId(9)}]

\* the download directory before the first call: without a job-id file, or
\* with the one an earlier process left
InitDownload ==
  /\ NoExtract("download")
  /\ NoMapping
  /\ dl_calls = 0
  /\ dl_args = <<>>
  /\ job_id_file \in {NoJob, NewJobId(9)}
  /\ requests = <<>>
  /\ error_json = {}
  /\ jobs = 0
  /\ dl_ret = NoRet
  /\ NoRoi

\* the state a call of download_data leaves: o is what the call gave
Downloaded(args, o) ==
  /\ dl_calls' = dl_calls + 1
  /\ dl_args' = args
  /\ job_id_file' = o.st.file
  /\ requests' = o.st.requests
  /\ error_json' = o.st.error_json
  /\ jobs' = o.st.jobs
  /\ dl_ret' = o.ret

\* one call of download_data, from its first line to its return or raise
DownloadData ==
  /\ pc = "download"
  /\ dl_calls < MaxCalls
  /\ \E args \in DownloadArgs, poll \in PollAnswers, dl \in DownloadAnswers :
       Downloaded(args,
                  download_data(args,
                                DlState(job_id_file, requests, error_json, jobs),
                                poll, dl))
  /\ UNCHANGED <<extractVars, mapVars, roiVars>>

NextDownload == DownloadData

SpecDownload == InitDownload /\ [][NextDownload]_vars

\* ------------------------------------------------ the region catalog on its own
\* the longest list of vector files
MaxVecs == 3

\* the vector files at hand: two files of one name in two directories, a
\* file of that name with another extension, a file with a dot in its base
\* name, and a file of another name
VectorFiles ==
  { VectorFile("north", <<"A", "shp">>, {"pA", "pAB"}),
    VectorFile("south", <<"A", "shp">>, {"pB"}),
    VectorFile("north", <<"A", "geojson">>, {"pC"}),
    VectorFile("north", <<"A", "v2", "shp">>, {"pAB"}),
    VectorFile("north", <<"B", "shp">>, {"pAB", "pB"}) }

\* the lists of different files
VecLists ==
  { v \in SeqsUpTo(VectorFiles, MaxVecs) :
      \A j, k \in 1..Len(v) : j # k => v[j] # v[k] }

InitRoi ==
  /\ NoExtract("roi")
  /\ NoMapping
  /\ NoDownload
  /\ roi_vec \in VecLists
  /\ roi_out = NotCalled

\* out_dict = prepare_roi(vec)
PrepareRoi ==
  /\ pc = "roi"
  /\ roi_out = NotCalled
  /\ roi_out' = prepare_roi(roi_vec)
  /\ UNCHANGED <<extractVars, mapVars, dlVars, roi_vec>>

NextRoi == PrepareRoi

SpecRoi == InitRoi /\ [][NextRoi]_vars

\* ------------------------------------------------------ the month filter
\* the loop of extract.py over the months of the files, from the argument
\* filter_month: which files it keeps
RECURSIVE MonthFilter(_, _)
MonthFilter(months, fm) ==
  IF months = <<>> THEN <<>>
  ELSE LET fm1 == SwapMonths(fm)
       IN <<InMonthRange(fm1, Head(months))>> \o MonthFilter(Tail(months), fm1)

\* -------------------------------------------------------------- the claims
\* what the log of the run tells
RunEnded == pc = "idle" /\ run > 0

LoggedMonths == [k \in 1..Len(flog) |-> flog[k].date]
LoggedKept == [k \in 1..Len(flog) |-> flog[k].status # "skipped"]

RECURSIVE SumFailures(_)
SumFailures(fl) ==
  IF fl = <<>> THEN 0
  ELSE Head(fl).errs + (IF Head(fl).status = "error" THEN 1 ELSE 0)
       + SumFailures(Tail(fl))

\* the failures of the run so far: those of the files, and the exception the
\* outer except clause has counted
RunFailures ==
  SumFailures(flog) + (IF exc # "" /\ pc \in {"finally", "idle"} THEN 1 ELSE 0)

\* the files whose shots a table holds
RowFiles(t) == {CellFile(t.rows[j]["shot"]) : j \in 1..Len(t.rows)}
RowsOfFile(t, k) == Cardinality({j \in 1..Len(t.rows) : CellFile(t.rows[j]["shot"]) = k})

\* the files with a shot in an accumulation bucket or in the value returned
AccumulatedFiles ==
  UNION ( {RowFiles(gdf_list_no_spatial_subset[j]) : j \in 1..Len(gdf_list_no_spatial_subset)}
          \cup (IF out_dict = None THEN {}
                ELSE {IF out_dict[k].gdf = None THEN {} ELSE RowFiles(out_dict[k].gdf) :
                        k \in DOMAIN out_dict})
          \cup (IF ret.kind = "value" /\ cfg.subset_vector = <<>>
                THEN {RowFiles(ret.out)} ELSE {}) )

\* C1: a run of extract.py that finds no file raises to its caller and writes
\* no output file.
C1_NoFilesRaises ==
  (RunEnded /\ cfg.variant = "extract" /\ exc = "nofiles") =>
    (ret.kind = "raised" /\ written = {})

\* C2: an exception raised outside the per-file loop (a write failure) reaches
\* the caller, after the cleanup has run.
C2_WriteFailurePropagates ==
  (RunEnded /\ cfg.variant = "extract" /\ exc = "write") =>
    (ret.kind = "raised" /\ handlers = {})

\* C3: no exception of a file's iteration fails the run: none reaches the
\* outer except clause, and the value returned holds the rows of every file
\* that went through.
C3_PerFileExceptionNeverFailsRun ==
  /\ \A k \in 1..Len(flog) : flog[k].status # "fatal"
  /\ (RunEnded /\ ret.kind = "value" /\ cfg.subset_vector = <<>>) =>
       \A k \in 1..Len(flog) : RowsOfFile(ret.out, k) = flog[k].rows

\* C4: a run over one file in which the read of a beam's layer raises and one
\* valid file succeeds with an error count of exactly 1, returns exactly the
\* rows of the valid file and prints the summary warning.
C4_ScenarioD ==
  (/\ RunEnded /\ cfg.variant = "extract" /\ cfg.subset_vector = <<>>
   /\ exc # "write" /\ Len(flog) = 2
   /\ \E a, b \in 1..2 :
        /\ a # b
        /\ flog[a].errs > 0
        /\ flog[b].valid /\ flog[b].status = "ok")
  => /\ ret.kind = "value"
     /\ error_tracker = 1
     /\ warnings = 1
     /\ \E b \in 1..2 :
          /\ flog[b].valid
          /\ RowFiles(ret.out) \subseteq {b}
          /\ Len(ret.out.rows) = flog[b].rows

\* C5: the error counter of either variant is 0 when a run starts, and at
\* the end of a run it is the number of failures of that run.
C5_CounterCountsThisRun ==
  /\ pc = "discover" => ErrorCount = 0
  /\ RunEnded => ErrorCount = RunFailures

\* C6: a run of extract.py prints the summary warning once at its end if the
\* error count is not zero, and never otherwise; the warning leaves what the
\* call gives its caller as it was before the finally block.
C6_SummaryWarningOnce ==
  /\ (RunEnded /\ cfg.variant = "extract") =>
       warnings = (IF error_tracker > 0 THEN 1 ELSE 0)
  /\ (~RunEnded) => warnings = 0
  /\ (RunEnded /\ ret.kind # "raised") => ret = pending

C6_Witness ==
  /\ RunEnded /\ cfg.variant = "extract"
  /\ warnings = 1 /\ error_tracker > 0 /\ ret.kind = "value"

\* C7: on every exit of extract.py after set_logging, no FileHandler of the
\* run is left on the logger.
C7_HandlersClosedOnExit ==
  (RunEnded /\ cfg.variant = "extract") => handlers = {}

\* C8: when a run of gedi.py with temp_unpack_zip ends, no temporary directory
\* is left on disk.
C8_TmpDirsDeleted ==
  (RunEnded /\ cfg.variant = "gedi" /\ cfg.temp_unpack_zip) => tmp_disk = {}

\* C9: with filter_month (lo, hi), lo > hi, the loop keeps the files it keeps
\* with filter_month (hi, lo).
C9_SwapInvariant ==
  (cfg.variant = "extract" /\ cfg.filter_month # <<>>
   /\ cfg.filter_month[1] > cfg.filter_month[2]
   /\ \A k \in 1..Len(flog) : flog[k].date # 0)
  => LoggedKept = MonthFilter(LoggedMonths,
                              <<cfg.filter_month[2], cfg.filter_month[1]>>)

C9_Witness ==
  /\ cfg.variant = "extract" /\ cfg.filter_month = <<8, 6>>
  /\ Len(flog) = 2 /\ RunEnded
  /\ flog[1].status = "skipped" /\ flog[2].status = "ok" /\ flog[2].rows > 0

\* the inclusive month range in force: the argument with its ends in order
ActiveLo == IF cfg.filter_month[1] <= cfg.filter_month[2]
            THEN cfg.filter_month[1] ELSE cfg.filter_month[2]
ActiveHi == IF cfg.filter_month[1] <= cfg.filter_month[2]
            THEN cfg.filter_month[2] ELSE cfg.filter_month[1]

\* C10: a file whose month lies outside the range is skipped: no bucket and no
\* value returned holds a row of it, and it adds nothing to the error count.
C10_ExclusionInvariant ==
  (cfg.variant = "extract" /\ cfg.filter_month # <<>>) =>
    /\ \A k \in 1..Len(flog) :
         (flog[k].date # 0 /\ (flog[k].date < ActiveLo \/ flog[k].date > ActiveHi))
         => /\ flog[k].status = "skipped"
            /\ k \notin AccumulatedFiles
    /\ pc = "loop" =>
         error_tracker = SumFailures(SelectSeq(flog, LAMBDA f : f.status # "skipped"))

C10_Witness ==
  /\ RunEnded /\ cfg.variant = "extract" /\ cfg.filter_month = <<6, 8>>
  /\ Len(flog) = 2
  /\ flog[1].status = "ok" /\ flog[1].rows > 0 /\ flog[1].errs = 0
  /\ flog[2].status = "skipped" /\ flog[2].date = 2
  /\ ret.kind = "value" /\ error_tracker = 0

\* the quality predicate as stated: quality_flag == 1, degrade_flag == 0,
\* num_detectedmodes >= 1 and the two elevations less than 100 apart
StatedQualityOfKind(kind) ==
  LET v == ShotValues(kind)
  IN /\ v.quality_flag = 1
     /\ v.degrade_flag = 0
     /\ v.num_detectedmodes >= 1
     /\ v.elev - v.elev_dem_tdx < 100
     /\ v.elev_dem_tdx - v.elev < 100

StatedQuality(row) == StatedQualityOfKind(CellKind(row["shot"]))

FlagColumns == {"quality_flag", "degrade_flag"}

C12_FilterIdempotent ==
  (pc = "filter" /\ Len(filtered) = 2) =>
    /\ ~filtered[2].raised
    /\ filtered[2].df.rows = filtered[1].df.rows

\* the shots of the beams read without an error, over the files of the run
\* that went through without an exception
RECURSIVE ShotsExtracted(_)
ShotsExtracted(fl) ==
  IF fl = <<>> THEN <<>>
  ELSE (IF Head(fl).status = "ok" THEN Head(fl).shots ELSE <<>>)
       \o ShotsExtracted(Tail(fl))

UnfilteredRun ==
  /\ RunEnded /\ cfg.variant = "extract" /\ ~cfg.apply_quality_filter
  /\ cfg.subset_vector = <<>> /\ ret.kind = "value"

\* C13 as stated: the result of a run without the quality filter has no
\* quality_flag and no degrade_flag column, and as many rows as shots were
\* extracted.
C13_UnfilteredHasNoFlags ==
  UnfilteredRun =>
    /\ FlagColumns \cap ret.out.cols = {}
    /\ Len(ret.out.rows) = Len(ShotsExtracted(flog))

\* C13 amended: the result of a run without the quality filter has as many
\* rows as shots were extracted, of whatever quality, and if it has a row it
\* has the columns quality_flag and degrade_flag.
C13_UnfilteredKeepsFlags ==
  UnfilteredRun =>
    /\ Len(ret.out.rows) = Len(ShotsExtracted(flog))
    /\ \A j \in 1..Len(ret.out.rows) :
         CellKind(ret.out.rows[j]["shot"]) = ShotsExtracted(flog)[j]
    /\ ret.out.rows # <<>> => FlagColumns \subseteq ret.out.cols

C13_Witness ==
  /\ UnfilteredRun
  /\ Len(ret.out.rows) >= 2
  /\ \E j \in 1..Len(ret.out.rows) : CellKind(ret.out.rows[j]["shot"]) = "poor_A"
  /\ FlagColumns \subseteq ret.out.cols

\* the tables of shots the run holds: the per-file tables of the global
\* list, the collections of the regions, and the table returned
RunTables ==
  {gdf_list_no_spatial_subset[j] : j \in 1..Len(gdf_list_no_spatial_subset)}
  \cup (IF out_dict = None THEN {}
        ELSE {out_dict[k].gdf : k \in {r \in DOMAIN out_dict : out_dict[r].gdf # None}})
  \cup (IF ret.kind = "value" /\ cfg.subset_vector = <<>> THEN {ret.out} ELSE {})

\* C14: the shot identifier of every row of every table a run accumulates,
\* writes or returns is a string of exactly 18 characters.
C14_ShotIdIs18Chars ==
  \A t \in RunTables :
    \A j \in 1..Len(t.rows) : Len(CellShotId(t.rows[j]["shot"])) = ShotIdWidth

\* the regions of the run, and the shot cells of a region's collection
Regions == {cfg.subset_vector[j] : j \in 1..Len(cfg.subset_vector)}
Collection(od, r) ==
  IF od[r].gdf = None THEN {}
  ELSE {od[r].gdf.rows[j]["shot"] : j \in 1..Len(od[r].gdf.rows)}
CellPos(cell) == ShotValues(CellKind(cell)).pos

\* the shot cells of the tables of the files that went through
ProcessedCells == UNION {flog[k].cells : k \in {n \in 1..Len(flog) : flog[n].status = "ok"}}

\* C15: for regions R1 and R2 without a common position no shot of R2's
\* collection intersects R1; a shot of a processed file that intersects R1 and
\* R2 is in the collections of both.
C15_RegionAssignment ==
  (cfg.variant = "extract" /\ out_dict # None /\ pc \in {"loop", "except", "finally", "idle"}) =>
    \A r1, r2 \in Regions :
      /\ RegionGeo(r1) \cap RegionGeo(r2) = {} =>
           \A cell \in Collection(out_dict, r2) : CellPos(cell) \notin RegionGeo(r1)
      /\ \A cell \in ProcessedCells :
           (CellPos(cell) \in RegionGeo(r1) /\ CellPos(cell) \in RegionGeo(r2))
           => (cell \in Collection(out_dict, r1) /\ cell \in Collection(out_dict, r2))

C15_Witness ==
  /\ cfg.variant = "extract" /\ out_dict # None /\ RunEnded
  /\ Regions = {"A", "B", "C"}
  /\ \E cell \in Collection(out_dict, "A") :
       CellPos(cell) = "pAB" /\ cell \in Collection(out_dict, "B")
  /\ \E cell \in Collection(out_dict, "A") :
       CellPos(cell) = "pA" /\ cell \notin Collection(out_dict, "C")
  /\ Collection(out_dict, "C") # {}

RegionRunReturned ==
  /\ RunEnded /\ cfg.variant = "extract" /\ cfg.subset_vector # <<>>
  /\ ret.kind = "value"

\* a processed file had a shot intersecting the region
RegionHit(r) == \E cell \in ProcessedCells : CellPos(cell) \in RegionGeo(r)

RegionPath(r) ==
  OutNameExtractSubset(run, cfg.gedi_product, Flt(cfg.apply_quality_filter), r)

\* C16: the mapping a run with regions returns has an entry for every region;
\* a region's output file is on disk and its path is set if and only if a
\* processed file had a shot intersecting it, and a region without such a
\* shot has no collection and no path.
C16_RegionOutputs ==
  RegionRunReturned =>
    /\ DOMAIN ret.out = Regions
    /\ ret.path = <<>>
    /\ \A r \in Regions :
         IF RegionHit(r)
         THEN /\ ret.out[r].path = RegionPath(r)
              /\ ret.out[r].gdf # None
              /\ \E f \in written :
                   f.name = RegionPath(r) /\ f.rows = Cardinality(Collection(ret.out, r))
                   /\ f.rows > 0
         ELSE /\ ret.out[r].path = <<>>
              /\ ret.out[r].gdf = None
              /\ \A f \in written : f.name # RegionPath(r)
    /\ Cardinality(written) = Cardinality({r \in Regions : RegionHit(r)})

C16_Witness ==
  /\ RegionRunReturned /\ Regions = {"A", "B", "C"}
  /\ RegionHit("A") /\ ~RegionHit("B") /\ ~RegionHit("C")
  /\ Cardinality(written) = 1
  /\ ret.out["B"].gdf = None /\ ret.out["A"].path # <<>>

\* C17: the polygon of every region's entry is the polygon prepare_vec
\* loaded, at every step of the run and in the mapping returned.
C17_GeometryUnchanged ==
  /\ (cfg.variant = "extract" /\ out_dict # None) =>
       \A r \in DOMAIN out_dict : out_dict[r].geo = RegionGeo(r)
  /\ RegionRunReturned =>
       \A r \in Regions : ret.out[r].geo = RegionGeo(r)

C17_Witness ==
  /\ RegionRunReturned /\ Regions = {"A", "B", "C"}
  /\ RegionHit("C") /\ ~RegionHit("A") /\ ~RegionHit("B")
  /\ ret.out["C"].path # <<>> /\ ret.out["A"].path = <<>>
  /\ \A r \in Regions : ret.out[r].geo = RegionGeo(r)

NoRegionRunReturned ==
  /\ RunEnded /\ cfg.variant = "extract" /\ cfg.subset_vector = <<>>
  /\ ret.kind = "value"

\* the extracted shots that survive the quality filter of the run
Survivors ==
  IF cfg.apply_quality_filter
  THEN SelectSeq(ShotsExtracted(flog), StatedQualityOfKind)
  ELSE ShotsExtracted(flog)

\* C18: a run without regions that returns has written exactly one output
\* file, with as many rows as shots survived over the processed files and
\* beams, if a shot survived; and if none did it has written no file, logged
\* this at info level and returned no path.
C18_SingleOutput ==
  NoRegionRunReturned =>
    LET n == Len(Survivors)
        name == <<"directory", "extracted">> \o DecStr(run)
                \o <<"_", cfg.gedi_product, "_",
                      IF cfg.apply_quality_filter THEN "1" ELSE "0", ".parquet">>
    IN IF n > 0
       THEN /\ written = {[name |-> name, rows |-> n]}
            /\ ret.path = name
            /\ Len(ret.out.rows) = n
            /\ log = <<>>
       ELSE /\ written = {}
            /\ ret.path = <<>>
            /\ ret.out.rows = <<>>
            /\ Len(log) = 1 /\ log[1][1] = "info"

C18_Witness ==
  /\ NoRegionRunReturned /\ cfg.apply_quality_filter
  /\ Len(flog) = 2 /\ flog[1].status = "ok" /\ flog[2].status = "ok"
  /\ flog[1].rows > 0 /\ flog[2].rows > 0
  /\ Len(Survivors) < Len(ShotsExtracted(flog))
  /\ Cardinality(written) = 1

\* C19: a file of which every requested beam is skipped with an informational
\* log adds nothing to the error count, and no beam that is skipped counts as
\* an error.
C19_BeamSkipNeverCounted ==
  \A k \in 1..Len(flog) :
    flog[k].opened =>
      /\ flog[k].errs <= Len(Beams) - flog[k].infos
      /\ flog[k].infos = Len(Beams) => flog[k].status # "error"

InGrid(pair) ==
  /\ pair[1] >= 0 /\ pair[1] < map_shape[1]
  /\ pair[2] >= 0 /\ pair[2] < map_shape[2]

\* the cell numbers of the grid
CellNumbers == 0..(map_shape[1] * map_shape[2] - 1)

\* C21: the cell number get_mapping_index gives for an index pair inside
\* the grid is reverted to that pair by revert_mapping, and the pair
\* revert_mapping gives for a cell number of the grid is mapped to that
\* cell number by get_mapping_index
C21_RoundTrip ==
  /\ (answer.op = "get_mapping_index" /\ InGrid(answer.args)) =>
        /\ ~answer.got.raised
        /\ revert_mapping(map_shape, answer.got.value) = answer.args
  /\ (answer.op = "revert_mapping" /\ answer.args \in CellNumbers) =>
        get_mapping_index(mapping, map_shape, answer.got[1], answer.got[2])
          = Returned(answer.args)

\* the last cell of a grid with sides of different lengths has been reverted
C21_Witness ==
  /\ answer.op = "revert_mapping"
  /\ map_shape = <<2, 3>>
  /\ answer.args = 5
  /\ answer.got = <<1, 2>>

\* ------------------------------------------------------------------- C30
\* the cell number of an index pair inside the grid, -1 for one outside
StatedIndex(pair) ==
  IF InGrid(pair) THEN pair[1] * map_shape[2] + pair[2] ELSE -1

\* C30: get_mapping_index returns -1 for every index pair outside the grid,
\* negative indices included, and the cell number otherwise; sample_index
\* at a cell of the grid returns -1 for each neighbour outside the grid
C30_OutsideIsMinusOne ==
  /\ answer.op = "get_mapping_index" =>
        answer.got = Returned(StatedIndex(answer.args))
  /\ (answer.op = "sample_index" /\ InGrid(answer.args)) =>
        answer.got =
          Returned([n \in DOMAIN SamplePairs(answer.args[1], answer.args[2], answer.how) |->
                      StatedIndex(SamplePairs(answer.args[1], answer.args[2], answer.how)[n])])

\* ------------------------------------------------------------------- C22
\* the requests the service received during the step
NewRequests == SubSeq(requests', Len(requests) + 1, Len(requests'))

\* C22: a call of download_data with a job id submits no request, and
\* whatever time_range, subset_vector and subset_bbox are, the job it polls
\* and downloads is the given one
C22_ResumeSubmitsNothing ==
  [][(dl_calls' = dl_calls + 1 /\ dl_args'.job_id # NoJob
        /\ dl_args'.gedi_product \in PRODUCT_MAPPING /\ dl_args'.directory_exists)
     => /\ jobs' = jobs
        /\ Len(NewRequests) >= 1
        /\ NewRequests[1] = <<"result_json", dl_args'.job_id>>
        /\ \A k \in DOMAIN NewRequests :
             NewRequests[k] \in {<<"result_json", dl_args'.job_id>>,
                                 <<"download_all", dl_args'.job_id>>}
        /\ dl_ret'.job_id = dl_args'.job_id
        /\ ~(dl_ret'.kind = "raised" /\ dl_ret'.exc = "ValueError")]_vars

\* a job resumed without any spatial subset has been polled and downloaded
C22_Witness ==
  /\ dl_args # <<>>
  /\ dl_args.job_id = NewJobId(9)
  /\ dl_args.subset_vector = <<>> /\ dl_args.subset_bbox = <<>>
  /\ dl_ret.kind = "value"
  /\ dl_ret.job_id = NewJobId(9)
  /\ requests = << <<"result_json", NewJobId(9)>>, <<"download_all", NewJobId(9)>> >>

\* ------------------------------------------------------------------- C23
\* C23: a call that leaves with an exception or interrupt raised after the
\* job id was known leaves the job-id file holding that job id; a call that
\* returns leaves no job-id file
C23_JobIdFileKept ==
  /\ (dl_ret.kind = "raised" /\ dl_ret.known) => job_id_file = dl_ret.job_id
  /\ dl_ret.kind = "value" => job_id_file = NoJob

\* ------------------------------------------------------------------- C24
\* the shot a value was read from: its file, its beam and its position in
\* the beam
ShotOf(cell) == <<cell[1], cell[2], cell[3]>>

\* the columns of a table that hold values read from the file
ValueColumns(t) == t.cols \ {"acq_time", "geometry"}

\* every value of the row was read from the same shot of the same beam
RowIsOneShot(t, j) ==
  \A c, d \in ValueColumns(t) :
    (t.rows[j][c] # NaN /\ t.rows[j][d] # NaN) => ShotOf(t.rows[j][c]) = ShotOf(t.rows[j][d])

\* C24: in every table a run accumulates or returns, each row holds the
\* values of one shot of one beam, whatever reads failed in the files
\* gone through.
C24_RowsAreShots ==
  cfg.variant = "extract" =>
    \A t \in RunTables : \A j \in 1..Len(t.rows) :
      /\ DOMAIN t.rows[j] = t.cols
      /\ RowIsOneShot(t, j)

\* a file in which a beam's read failed after the beam's first layers were
\* appended has been gone through, and rows have been accumulated
C24_Witness ==
  /\ cfg.variant = "extract"
  /\ \E k \in 1..Len(flog) :
       /\ flog[k].opened /\ flog[k].infos = 0
       /\ flog[k].errs > 0 /\ flog[k].status = "error"
  /\ \E t \in RunTables : Len(t.rows) > 0

\* ------------------------------------------------------------------- C25
\* the shots of a table, in the order of its rows
TableCells(t) == [j \in 1..Len(t.rows) |-> t.rows[j]["shot"]]

\* the shots of the global list, table after table
RECURSIVE ListCells(_, _)
ListCells(lst, j) ==
  IF j > Len(lst) THEN <<>> ELSE TableCells(lst[j]) \o ListCells(lst, j + 1)

\* the shots of a region's collection
RegionCells(od, r) == IF od[r].gdf = None THEN <<>> ELSE TableCells(od[r].gdf)

\* b is a followed by rows of the file the step went through, which are the
\* shots of that file's table in the set keep
GrownBy(a, b, last, keep) ==
  /\ Len(a) <= Len(b)
  /\ SubSeq(b, 1, Len(a)) = a
  /\ \A j \in (Len(a) + 1)..Len(b) : CellFile(b[j]) = last
  /\ {b[j] : j \in (Len(a) + 1)..Len(b)} = keep

\* the shots of the table of the file the step went through
LastCells == IF Len(flog') > Len(flog) THEN flog'[Len(flog')].cells ELSE {}

\* C25: in every step of a run each accumulation bucket keeps the rows it
\* had, in their order, and the rows added after them are the shots of the
\* file just gone through (for a region: those that intersect it); a
\* region's first subset sets its collection
C25_BucketsGrow ==
  [][(cfg.variant = "extract" /\ pc # "idle" /\ run' = run) =>
       /\ GrownBy(ListCells(gdf_list_no_spatial_subset, 1),
                  ListCells(gdf_list_no_spatial_subset', 1), i',
                  IF cfg.subset_vector = <<>> THEN LastCells ELSE {})
       /\ (out_dict # None /\ out_dict' # None) =>
            \A r \in DOMAIN out_dict :
              GrownBy(RegionCells(out_dict, r), RegionCells(out_dict', r), i',
                      {c \in LastCells : CellPos(c) \in RegionGeo(r)})]_vars

\* a region's collection and the global list each hold shots of two files
C25_Witness ==
  /\ cfg.variant = "extract"
  /\ \/ /\ out_dict # None
        /\ \E r \in DOMAIN out_dict :
             {CellFile(RegionCells(out_dict, r)[j]) : j \in DOMAIN RegionCells(out_dict, r)}
               = {1, 2}
     \/ /\ Len(gdf_list_no_spatial_subset) = 2
        /\ {CellFile(c) : c \in {ListCells(gdf_list_no_spatial_subset, 1)[j] :
                                   j \in DOMAIN ListCells(gdf_list_no_spatial_subset, 1)}}
             = {1, 2}

\* ------------------------------------------------------------------- C26
\* the name of a vector file without its extension, as its parts
Stem(v) == SubSeq(v.name, 1, Len(v.name) - 1)

\* C26: prepare_roi gives one entry for each vector file of the list, under
\* the file's base name without its extension and holding the file's
\* geometry, whatever directories, extensions and dots the names have
C26_OneEntryPerFile ==
  roi_out # NotCalled =>
    /\ Cardinality(DOMAIN roi_out) = Len(roi_vec)
    /\ \A j \in 1..Len(roi_vec) :
         \E k \in DOMAIN roi_out :
           /\ <<k>> = Stem(roi_vec[j])
           /\ roi_out[k].geo = roi_vec[j].geo

\* ------------------------------------------------------------------- C27
\* C27: applied to a table with all its columns and no row, the quality
\* filter returns a table with no row and does not raise
C27_EmptyTableFiltered ==
  (Len(df.rows) = 0 /\ QualityColumns \subseteq df.cols /\ filtered # <<>>) =>
     /\ ~filtered[1].raised
     /\ Len(filtered[1].df.rows) = 0

\* ------------------------------------------------------------------- C28
\* the shots of file k in the collection of region r
SharePerFile(r, k) == {c \in Collection(out_dict, r) : CellFile(c) = k}

\* C28: of a file whose iteration raised no region's collection holds a
\* shot; of a file that went through every region's collection holds
\* exactly the shots that intersect the region
C28_AllOrNothing ==
  (cfg.variant = "extract" /\ out_dict # None /\ pc \in {"loop", "except", "finally", "idle"}) =>
    \A k \in 1..Len(flog) : \A r \in DOMAIN out_dict :
      SharePerFile(r, k) =
        IF flog[k].status = "ok"
        THEN {c \in flog[k].cells : CellPos(c) \in RegionGeo(r)}
        ELSE {}

\* ------------------------------------------------------------------- C29
\* C29: between the iterations of the loop over the files and after the
\* run no source file the run opened is left open, whatever raised while
\* the file was worked on
C29_OpenedFilesClosed == open_h5 = {}

====
